---- MODULE Spec2Model ----
(***************************************************************************)
(* Model of the policy analysis module of LVTShift (policy_analysis.py)    *)
(* and of its network fetchers (cloud_utils.py, census_utils.py).          *)
(*                                                                         *)
(* A DataFrame is a sequence of rows (df) and the set of its column names  *)
(* (columns); the field of a row for a column that the table does not      *)
(* have holds a filler.  A raw cell is a record: a numeric                 *)
(* cell carries its value, a missing cell (NaN/None) and a non-numeric     *)
(* cell (a string that does not parse) carry none.  Dollar amounts are     *)
(* integers.  A float that a division produces is a record too: a finite   *)
(* quotient n/d, or one of nan, inf, -inf (numpy semantics of x/0).        *)
(*                                                                         *)
(* sort_values uses kind='quicksort', which is not stable: the order in    *)
(* which it leaves rows of equal sort key depends on the numpy build.  The *)
(* variable tie is that order, fixed for a behaviour: "asc" keeps equal    *)
(* keys in their input order, "desc" leaves them reversed.                 *)
(***************************************************************************)
EXTENDS Integers, Sequences, FiniteSets, TLC

VARIABLES df, columns, tie, call, res

(***************************************************************************)
(* The network fetchers (cloud_utils.py, census_utils.py) run as state     *)
(* machines of their own: pc is the position of the running function, args *)
(* its arguments, server the remote service it queries, loc its local      *)
(* variables, and trace the history of the requests it has issued.         *)
(***************************************************************************)
VARIABLES pc, args, server, loc, trace

tablevars == <<df, columns, tie, call, res>>

netvars == <<pc, args, server, loc, trace>>

vars == <<df, columns, tie, call, res, pc, args, server, loc, trace>>

\* no fetcher runs while the table analyses do
NetIdle ==
    /\ pc = "idle"
    /\ args = [fn |-> "none"]
    /\ server = [count |-> 0]
    /\ loc = [fn |-> "none"]
    /\ trace = <<>>

(***************************************************************************)
(* Bounds of the model.                                                    *)
(***************************************************************************)
MaxVal == 2

MaxRows == 2

MaxYears == 2

MaxOwners == 20

(***************************************************************************)
(* Raw cells and pd.to_numeric(..., errors='coerce').fillna(0).            *)
(***************************************************************************)
Num(v) == [t |-> "num", v |-> v]

NaNCell == [t |-> "nan", v |-> 0]

StrCell == [t |-> "str", v |-> 0]

\* pd.to_numeric(x, errors='coerce'): a cell that does not parse becomes NaN
to_numeric(c) == IF c.t = "num" THEN c ELSE NaNCell

\* Series.fillna(x)
fillna(c, x) == IF c.t = "nan" THEN Num(x) ELSE c

\* faulty variant: a missing value is filled with 1
Coerce_one(c) == fillna(to_numeric(c), 1).v

\* pd.to_numeric(col, errors='coerce').fillna(0), as a number
Coerce(c) == fillna(to_numeric(c), 0).v

\* faulty variant: no floor
clip_lower0_off(x) == x

\* Series.clip(lower=0)
clip_lower0(x) == IF x < 0 THEN 0 ELSE x


(***************************************************************************)
(* Floats produced by divisions.                                           *)
(***************************************************************************)
Fin(n, d) == [k |-> "num", n |-> n, d |-> d]

NaNF == [k |-> "nan", n |-> 0, d |-> 1]

InfF == [k |-> "inf", n |-> 0, d |-> 1]

NegInfF == [k |-> "-inf", n |-> 0, d |-> 1]

ZeroF == Fin(0, 1)

\* numpy float division of two integers: x/0 is inf, -inf or nan
fdiv(n, d) ==
    IF d = 0 THEN (IF n = 0 THEN NaNF ELSE IF n > 0 THEN InfF ELSE NegInfF)
    ELSE IF d > 0 THEN Fin(n, d) ELSE Fin(-n, -d)

\* Series.replace([np.inf, -np.inf], x)
replace_inf(r, x) == IF r.k \in {"inf", "-inf"} THEN Fin(x, 1) ELSE r

\* Series.fillna(x) on a float column
fillna_f(r, x) == IF r.k = "nan" THEN Fin(x, 1) ELSE r

\* faulty variant: the NaN of 0/0 is not filled
normalize_ratio_nofill(r) == replace_inf(r, 0)

\* (a / b).replace([np.inf, -np.inf], 0).fillna(0)
normalize_ratio(r) == fillna_f(replace_inf(r, 0), 0)

\* (n / d) * 100 if d > 0 else 0.0
guarded_pct(n, d) == IF d > 0 THEN fdiv(n * 100, d) ELSE ZeroF

\* (n / d) if d > 0 else 0.0
guarded_ratio(n, d) == IF d > 0 THEN fdiv(n, d) ELSE ZeroF

Max(a, b) == IF a >= b THEN a ELSE b

\* float arithmetic on finite floats
radd(a, b) == Fin(a.n * b.d + b.n * a.d, a.d * b.d)

rmul_int(a, x) == Fin(a.n * x, a.d)

rsub_int(a, x) == Fin(a.n - x * a.d, a.d)

rdiv_int(a, x) == Fin(a.n, a.d * x)

\* faulty variant: strict comparison
rle_strict(a, b) == a.n * b.d < b.n * a.d

\* a <= b on finite floats (denominators are positive)
rle(a, b) == a.n * b.d <= b.n * a.d

IsFinite(r) == r.k = "num"

IsZeroF(r) == r.k = "num" /\ r.n = 0

(***************************************************************************)
(* Sums, group keys and sorting.                                           *)
(***************************************************************************)
RECURSIVE SumSet(_, _)
\* sum of f[i] over the index set S
SumSet(S, f) ==
    IF S = {} THEN 0
    ELSE LET i == CHOOSE x \in S : TRUE IN f[i] + SumSet(S \ {i}, f)

RECURSIVE SortedSeq(_)
\* the elements of a set of integers in ascending order
SortedSeq(S) ==
    IF S = {} THEN <<>>
    ELSE LET m == CHOOSE x \in S : \A y \in S : x <= y
         IN  <<m>> \o SortedSeq(S \ {m})

\* a missing category value (NaN / None); groupby drops it
NaNKey == 0

\* the group keys of DataFrame.groupby(col), in ascending order
group_keys(d, col) == SortedSeq({d[i][col] : i \in 1..Len(d)} \ {NaNKey})

\* the rows of group k
group_rows(d, col, k) == {i \in 1..Len(d) : d[i][col] = k}

RECURSIVE SortOrder(_, _, _, _)
\* positions of rows in the order sort_values(by, ascending=False) leaves
\* them: by descending, equal values in the order the build's sort leaves
SortOrder(S, rows, by, t) ==
    IF S = {} THEN <<>>
    ELSE LET top == {p \in S : \A q \in S : rows[p][by] >= rows[q][by]}
             p == IF t = "asc"
                  THEN CHOOSE x \in top : \A y \in top : x <= y
                  ELSE CHOOSE x \in top : \A y \in top : x >= y
         IN  <<p>> \o SortOrder(S \ {p}, rows, by, t)

\* faulty variant: sorted ascending
sort_values_desc_asc(rows, by, t) ==
    LET ord == SortOrder(1..Len(rows), rows, by, t)
    IN  [j \in 1..Len(rows) |-> rows[ord[Len(rows) + 1 - j]]]

\* DataFrame.sort_values(by, ascending=False)
sort_values_desc(rows, by, t) ==
    LET ord == SortOrder(1..Len(rows), rows, by, t)
    IN  [j \in 1..Len(rows) |-> rows[ord[j]]]

\* DataFrame.head(k)
head(rows, k) == [j \in 1..(IF k < Len(rows) THEN k ELSE Len(rows)) |-> rows[j]]

\* faulty variant: the order of equal keys changes from one call to the next
quicksort_tie_flip(t) == IF t = "asc" THEN "desc" ELSE "asc"

\* the order in which the sort leaves equal keys, after a call: the sort is
\* deterministic, one build orders the same input the same way on every call
quicksort_tie(t) == t

(***************************************************************************)
(* _compute_adjusted_values, row by row (the function is element-wise).    *)
(* cfg.impr, cfg.exempt, cfg.flag: the column is named by the caller and   *)
(* is a column of the table.                                               *)
(***************************************************************************)
\* faulty variant: the whole exemption is taken from land
remaining_exemption_all(exempt_amt, original_impr) == clip_lower0(exempt_amt)

remaining_exemption(exempt_amt, original_impr) ==
    clip_lower0(exempt_amt - original_impr)

\* faulty variant: the improvement is not reduced by the exemption
adj_impr_partial_keep(impr, exempt_amt) == clip_lower0(impr)

adj_impr_partial(impr, exempt_amt) == clip_lower0(impr - exempt_amt)

\* faulty variant: only flag == 1 is fully exempt
fully_exempt_mask_eq1(flag) == flag = 1

fully_exempt_mask(flag) == flag /= 0

\* faulty variant: the base value is floored at 0
base_copy_floored(x) == clip_lower0(x)

\* adj_land = land.copy(), adj_impr = improvements.copy(): the base values
base_copy(x) == x

AdjustedRow(r, cfg) ==
    LET land == Coerce(r.land)
        improvements == Coerce(r.impr)
        exempt_amt == Coerce(r.exempt)
        flag == Coerce(r.flag)
        \* partial exemption: buildings first, then land
        impr1 == IF cfg.exempt /\ cfg.impr
                 THEN adj_impr_partial(base_copy(improvements), exempt_amt)
                 ELSE base_copy(improvements)
        land1 == IF cfg.exempt
                 THEN IF cfg.impr
                      THEN clip_lower0(base_copy(land)
                                       - remaining_exemption(exempt_amt, improvements))
                      ELSE clip_lower0(base_copy(land) - exempt_amt)
                 ELSE base_copy(land)
        \* full exemption flag last
        masked == cfg.flag /\ fully_exempt_mask(flag)
    IN  [land    |-> IF masked THEN 0 ELSE land1,
         impr    |-> IF cfg.impr THEN (IF masked THEN 0 ELSE impr1) ELSE 0,
         tracked |-> cfg.impr]

compute_adjusted_values(d, cfg) == [i \in 1..Len(d) |-> AdjustedRow(d[i], cfg)]


(***************************************************************************)
(* analyze_property_values_by_category.                                    *)
(* cfg.exempt / cfg.flag: exemption_col / exemption_flag_col is given.     *)
(***************************************************************************)
\* result_df: the copy whose value columns are coerced in place
coerced_copy(d, cfg) ==
    [i \in 1..Len(d) |->
        [d[i] EXCEPT !.land = Num(Coerce(d[i].land)),
                     !.impr = Num(Coerce(d[i].impr)),
                     !.exempt = IF cfg.exempt THEN Num(Coerce(d[i].exempt)) ELSE @,
                     !.flag = IF cfg.flag THEN Num(Coerce(d[i].flag)) ELSE @]]

\* result_df[exemption_flag_col] == 1
counted_fully_exempt(c) == c.t = "num" /\ c.v = 1

\* summary['fully_exempt_count'] = result_df[flag == 1].groupby(cat).size():
\* the assignment aligns on the category index, a category that is not in
\* the size() series gets NaN
fully_exempt_count(result_df, category_col, k) ==
    LET n == Cardinality({i \in group_rows(result_df, category_col, k) :
                             counted_fully_exempt(result_df[i].flag)})
    IN  IF n = 0 THEN NaNF ELSE Fin(n, 1)

category_columns(cfg) ==
    {"total_land_value", "property_count", "total_improvement_value",
     "improvement_land_ratio"}
    \cup (IF cfg.exempt THEN {"total_exemptions"} ELSE {})
    \cup (IF cfg.exempt \/ cfg.flag
          THEN {"non_exempt_land_value", "non_exempt_improvement_value",
                "non_exempt_improvement_land_ratio"}
          ELSE {})
    \cup (IF cfg.flag THEN {"fully_exempt_count"} ELSE {})

\* one row of the summary; a column that is not in category_columns(cfg)
\* is not in the table and holds a placeholder here
category_row(result_df, category_col, cfg, k) ==
    LET G == group_rows(result_df, category_col, k)
        adj == compute_adjusted_values(result_df,
                   [impr |-> TRUE, exempt |-> cfg.exempt, flag |-> cfg.flag])
        land == [i \in 1..Len(result_df) |-> result_df[i].land.v]
        impr == [i \in 1..Len(result_df) |-> result_df[i].impr.v]
        exem == [i \in 1..Len(result_df) |-> result_df[i].exempt.v]
        aland == [i \in 1..Len(result_df) |-> adj[i].land]
        aimpr == [i \in 1..Len(result_df) |-> adj[i].impr]
        adjusted == cfg.exempt \/ cfg.flag
    IN  [category |-> k,
         total_land_value |-> SumSet(G, land),
         property_count |-> Cardinality(G),
         total_improvement_value |-> SumSet(G, impr),
         \* summary.join(...).fillna(0) fills every column of the summary
         improvement_land_ratio |->
             IF adjusted
             THEN fillna_f(normalize_ratio(fdiv(SumSet(G, impr), SumSet(G, land))), 0)
             ELSE normalize_ratio(fdiv(SumSet(G, impr), SumSet(G, land))),
         total_exemptions |-> IF cfg.exempt THEN SumSet(G, exem) ELSE 0,
         non_exempt_land_value |-> IF adjusted THEN SumSet(G, aland) ELSE 0,
         non_exempt_improvement_value |-> IF adjusted THEN SumSet(G, aimpr) ELSE 0,
         non_exempt_improvement_land_ratio |->
             IF adjusted
             THEN fillna_f(normalize_ratio(fdiv(SumSet(G, aimpr), SumSet(G, aland))), 0)
             ELSE ZeroF,
         fully_exempt_count |->
             IF cfg.flag THEN fully_exempt_count(result_df, category_col, k)
             ELSE NaNF]

analyze_property_values_by_category(d, category_col, cfg, t) ==
    LET result_df == coerced_copy(d, cfg)
        keys == group_keys(result_df, category_col)
        summary == [j \in 1..Len(keys) |->
                       category_row(result_df, category_col, cfg, keys[j])]
    IN  [fn |-> "by_category",
         columns |-> category_columns(cfg),
         rows |-> sort_values_desc(summary, "total_land_value", t)]


(***************************************************************************)
(* analyze_vacant_land.  cols.neighborhood, cols.zoning, cols.owner: the   *)
(* column the caller names for the breakdown, "" when none is given.       *)
(***************************************************************************)
\* df[df[property_type_col] == identifier]
filter_type(d, identifier) == SelectSeq(d, LAMBDA r : r.ptype = identifier)

\* faulty variant: the empty selection is not detected
empty_filter_off(sub) == FALSE

\* if len(vacant_df) == 0 / if len(parking_df) == 0: return {"error": ...}
empty_filter(sub) == Len(sub) = 0

adj_land_of(d, cfg) ==
    LET adj == compute_adjusted_values(d, cfg)
    IN  [i \in 1..Len(d) |-> adj[i].land]

adj_impr_of(d, cfg) ==
    LET adj == compute_adjusted_values(d, cfg)
    IN  [i \in 1..Len(d) |-> adj[i].impr]

\* tmp.groupby(col).agg(count, sum, mean) of the adjusted land value,
\* sorted by total_value descending
breakdown(sub, adj_land, col, t) ==
    LET keys == group_keys(sub, col)
        row(k) == LET G == group_rows(sub, col, k)
                  IN  [category |-> k,
                       count |-> Cardinality(G),
                       total_value |-> SumSet(G, adj_land),
                       avg_value |-> fdiv(SumSet(G, adj_land), Cardinality(G))]
    IN  sort_values_desc([j \in 1..Len(keys) |-> row(keys[j])], "total_value", t)

\* faulty variant: rounds to the nearest integer, halves to even (Python's round)
top_count_round(num_owners, pct) ==
    LET q == (num_owners * pct) \div 100
        r == (num_owners * pct) % 100
        rounded == IF r > 50 \/ (r = 50 /\ q % 2 = 1) THEN q + 1 ELSE q
    IN  Max(rounded, 1)

\* faulty variant: no minimum of one owner
top_count_nomin(num_owners, pct) == (num_owners * pct) \div 100

\* max(int(num_owners * 0.05), 1): int() truncates
top_count(num_owners, pct) == Max((num_owners * pct) \div 100, 1)

\* owner_analysis['total_land_value'].head(k).sum()
head_sum(rows, k) ==
    LET h == head(rows, k)
    IN  SumSet(1..Len(h), [j \in 1..Len(h) |-> h[j].total_value])

NoConcentration ==
    [num_owners |-> 0, top_5_count |-> 0, top_10_count |-> 0,
     top_5_value |-> 0, top_10_value |-> 0,
     top_5_percent_share |-> ZeroF, top_10_percent_share |-> ZeroF]

concentration_metrics(owner_analysis, total_vacant_land_value) ==
    LET num_owners == Max(Len(owner_analysis), 1)
        top_5_count == top_count(num_owners, 5)
        top_10_count == top_count(num_owners, 10)
        top_5_value == head_sum(owner_analysis, top_5_count)
        top_10_value == head_sum(owner_analysis, top_10_count)
    IN  [num_owners |-> num_owners,
         top_5_count |-> top_5_count,
         top_10_count |-> top_10_count,
         top_5_value |-> top_5_value,
         top_10_value |-> top_10_value,
         top_5_percent_share |-> guarded_pct(top_5_value, total_vacant_land_value),
         top_10_percent_share |-> guarded_pct(top_10_value, total_vacant_land_value)]

analyze_vacant_land(d, vacant_identifier, cols, cfg, t) ==
    LET vacant_df == filter_type(d, vacant_identifier)
        city_adj_land == adj_land_of(d, cfg)
        vacant_adj_land == adj_land_of(vacant_df, cfg)
        total_vacant == SumSet(1..Len(vacant_df), vacant_adj_land)
        total_city == SumSet(1..Len(d), city_adj_land)
        owner_analysis == breakdown(vacant_df, vacant_adj_land, cols.owner, t)
    IN  IF empty_filter(vacant_df)
        THEN [fn |-> "vacant_land", error |-> TRUE]
        ELSE [fn |-> "vacant_land", error |-> FALSE,
              total_vacant_parcels |-> Len(vacant_df),
              total_vacant_land_value |-> total_vacant,
              average_vacant_land_value |-> fdiv(total_vacant, Len(vacant_df)),
              total_city_land_value |-> total_city,
              vacant_land_pct_of_total |-> guarded_pct(total_vacant, total_city),
              keys |-> (IF cols.neighborhood /= "" THEN {"by_neighborhood"} ELSE {})
                       \cup (IF cols.zoning /= "" THEN {"by_zoning"} ELSE {})
                       \cup (IF cols.owner /= ""
                             THEN {"top_10_owners_by_value", "concentration_metrics"}
                             ELSE {}),
              by_neighborhood |->
                  IF cols.neighborhood /= ""
                  THEN breakdown(vacant_df, vacant_adj_land, cols.neighborhood, t)
                  ELSE <<>>,
              by_zoning |->
                  IF cols.zoning /= ""
                  THEN breakdown(vacant_df, vacant_adj_land, cols.zoning, t)
                  ELSE <<>>,
              owner_analysis |-> IF cols.owner /= "" THEN owner_analysis ELSE <<>>,
              top_10_owners_by_value |->
                  IF cols.owner /= "" THEN head(owner_analysis, 10) ELSE <<>>,
              concentration_metrics |->
                  IF cols.owner /= ""
                  THEN concentration_metrics(owner_analysis, total_vacant)
                  ELSE NoConcentration]

(***************************************************************************)
(* analyze_parking_lots.  cfg.impr: improvement_value_col is a column of   *)
(* the table.                                                              *)
(***************************************************************************)
RECURSIVE SumF(_, _)
\* sum of the finite floats f[i] over the index set S
SumF(S, f) ==
    IF S = {} THEN ZeroF
    ELSE LET i == CHOOSE x \in S : TRUE IN radd(f[i], SumF(S \ {i}, f))

\* bins=[0, 25000, 50000, 100000, 250000, float('inf')]
TierBins == <<0, 25000, 50000, 100000, 250000>>

\* pd.cut(x, bins, labels): the intervals are open on the left and closed on
\* the right (right=True, include_lowest=False); a value in no interval
\* gets no tier (NaN), written 0; the tiers are 1..5
land_value_tier(x) ==
    IF x <= TierBins[1] THEN 0
    ELSE IF x <= TierBins[2] THEN 1
    ELSE IF x <= TierBins[3] THEN 2
    ELSE IF x <= TierBins[4] THEN 3
    ELSE IF x <= TierBins[5] THEN 4
    ELSE 5

\* tier_df.groupby('land_value_tier').agg(count, sum, mean; mean of ratio):
\* a row without a tier is in no group
tier_analysis(park_adj_land, ratio) ==
    [t \in 1..5 |->
        LET G == {i \in 1..Len(park_adj_land) : land_value_tier(park_adj_land[i]) = t}
        IN  [count |-> Cardinality(G),
             total_land_value |-> SumSet(G, park_adj_land),
             avg_land_value |-> fdiv(SumSet(G, park_adj_land), Cardinality(G)),
             avg_improvement_ratio |->
                 IF G = {} THEN NaNF ELSE rdiv_int(SumF(G, ratio), Cardinality(G))]]

analyze_parking_lots(d, parking_identifier, min_land_value_threshold, max_improvement_ratio, cfg) ==
    LET parking_df == filter_type(d, parking_identifier)
        n == Len(parking_df)
        city_adj_land == adj_land_of(d, cfg)
        city_adj_impr == adj_impr_of(d, cfg)
        park_adj_land == adj_land_of(parking_df, cfg)
        park_adj_impr == adj_impr_of(parking_df, cfg)
        improvement_to_land_ratio ==
            [i \in 1..n |-> normalize_ratio(fdiv(park_adj_impr[i], park_adj_land[i]))]
        underutilized ==
            {i \in 1..n : /\ park_adj_land[i] >= min_land_value_threshold
                          /\ rle(improvement_to_land_ratio[i], max_improvement_ratio)}
        under_land == SumSet(underutilized, park_adj_land)
        under_impr == SumSet(underutilized, park_adj_impr)
        total_city_adj_land == SumSet(1..Len(d), city_adj_land)
        total_city_adj_impr == SumSet(1..Len(d), city_adj_impr)
        avg_improvement_ratio_citywide ==
            guarded_ratio(total_city_adj_impr, total_city_adj_land)
        potential == rmul_int(avg_improvement_ratio_citywide, under_land)
    IN  IF empty_filter(parking_df)
        THEN [fn |-> "parking_lots", error |-> TRUE, raised |-> FALSE]
        ELSE IF ~cfg.impr
        \* park_adj_impr is None: None / Series raises TypeError
        THEN [fn |-> "parking_lots", error |-> FALSE, raised |-> TRUE]
        ELSE [fn |-> "parking_lots", error |-> FALSE, raised |-> FALSE,
              improvement_to_land_ratio |-> improvement_to_land_ratio,
              park_adj_land |-> park_adj_land,
              total_parking_lots |-> n,
              total_parking_land_value |-> SumSet(1..n, park_adj_land),
              total_parking_improvement_value |-> SumSet(1..n, park_adj_impr),
              average_parking_land_value |-> fdiv(SumSet(1..n, park_adj_land), n),
              average_improvement_ratio |->
                  rdiv_int(SumF(1..n, improvement_to_land_ratio), n),
              underutilized_parking_lots |->
                  [count |-> Cardinality(underutilized),
                   total_land_value |-> under_land,
                   average_land_value |->
                       IF Cardinality(underutilized) > 0
                       THEN fdiv(under_land, Cardinality(underutilized))
                       ELSE ZeroF,
                   total_improvement_value |-> under_impr],
              has_development_potential |-> Cardinality(underutilized) > 0,
              total_city_adj_land |-> total_city_adj_land,
              development_potential |->
                  IF Cardinality(underutilized) > 0
                  THEN [current_improvement_value |-> under_impr,
                        potential_improvement_value |-> potential,
                        untapped_development_value |-> rsub_int(potential, under_impr),
                        citywide_avg_improvement_ratio |-> avg_improvement_ratio_citywide]
                  ELSE [current_improvement_value |-> 0,
                        potential_improvement_value |-> ZeroF,
                        untapped_development_value |-> ZeroF,
                        citywide_avg_improvement_ratio |-> ZeroF],
              by_land_value_tier |->
                  tier_analysis(park_adj_land, improvement_to_land_ratio)]


(***************************************************************************)
(* calculate_development_tax_penalty.  Rates are floats n/d.               *)
(***************************************************************************)
RECURSIVE GCD(_, _)
GCD(a, b) == IF b = 0 THEN a ELSE GCD(b, a % b)

RECURSIVE Pow(_, _)
Pow(b, e) == IF e = 0 THEN 1 ELSE b * Pow(b, e - 1)

\* the finite float n/d (d /= 0) in lowest terms
Frac(n, d) ==
    LET g == GCD(IF n < 0 THEN -n ELSE n, IF d < 0 THEN -d ELSE d)
    IN  IF d > 0 THEN Fin(n \div g, d \div g) ELSE Fin((-n) \div g, (-d) \div g)

\* a * b on finite floats
rmul(a, b) == Frac(a.n * b.n, a.d * b.d)

\* numpy float division a / b of finite floats: x/0 is inf, -inf or nan
rdiv(a, b) ==
    IF b.n = 0 THEN (IF a.n = 0 THEN NaNF ELSE IF a.n > 0 THEN InfF ELSE NegInfF)
    ELSE Frac(a.n * b.d, a.d * b.n)

\* x * 100 on a float: nan and inf stay
times100(a) == IF IsFinite(a) THEN Frac(a.n * 100, a.d) ELSE a

\* Series.sum(): missing cells are skipped
raw_sum(d, col) ==
    SumSet(1..Len(d), [i \in 1..Len(d) |-> IF d[i][col].t = "num" THEN d[i][col].v ELSE 0])

\* (1 - (1 + r) ** (-years)) / r for r = rn/rd, r /= 0
npv_factor(r, years) ==
    LET up == Pow(r.n + r.d, years)
        dn == Pow(r.d, years)
    IN  rdiv(Frac(up - dn, up), r)

calculate_development_tax_penalty(d, improvement_value_col, millage_rate, years, discount_rate, typical_unit_construction_cost) ==
    LET total_improvement_value == raw_sum(d, improvement_value_col)
        annual_improvement_tax == rmul(Fin(total_improvement_value, 1), millage_rate)
        npv_improvement_tax ==
            IF discount_rate.n = 0
            THEN rmul(annual_improvement_tax, Fin(years, 1))
            ELSE rmul(annual_improvement_tax, npv_factor(discount_rate, years))
        npv_as_pct_of_construction ==
            times100(rdiv(npv_improvement_tax, Fin(total_improvement_value, 1)))
        equivalent_lost_units ==
            rdiv(npv_improvement_tax, Fin(typical_unit_construction_cost, 1))
        \* df[df['improvement_value'] > 0]: the column name is fixed here
        residential_properties ==
            {i \in 1..Len(d) : d[i].impr.t = "num" /\ d[i].impr.v > 0}
        estimated_current_units == Frac(Cardinality(residential_properties) * 3, 2)
        units_lost_pct == times100(rdiv(equivalent_lost_units, estimated_current_units))
    IN  [fn |-> "tax_penalty",
         total_improvement_value |-> total_improvement_value,
         annual_improvement_tax |-> annual_improvement_tax,
         npv_improvement_tax |-> npv_improvement_tax,
         npv_as_pct_of_construction_cost |-> npv_as_pct_of_construction,
         equivalent_lost_units |-> equivalent_lost_units,
         estimated_current_units |-> estimated_current_units,
         units_lost_percentage |-> units_lost_pct]

(***************************************************************************)
(* analyze_land_by_improvement_share.  cfg.exempt, cfg.flag: the column is *)
(* named by the caller and is a column of the table.                       *)
(***************************************************************************)
\* (improvement / total_value).replace([np.inf, -np.inf], np.nan)
improvement_share(land, impr) ==
    LET r == fdiv(impr, land + impr)
    IN  IF r.k \in {"inf", "-inf"} THEN NaNF ELSE r

\* share > 0, share < p/q, share >= p/q on a float column: a comparison
\* with NaN is False
share_gt0(s) == s.k = "num" /\ s.n > 0

share_lt(s, p, q) == s.k = "num" /\ s.n * q < p * s.d

share_ge(s, p, q) == s.k = "num" /\ s.n * q >= p * s.d

\* (result_df[improvement_value_col] == 0) & (total_value > 0)
zero_impr_mask(land, impr) == impr = 0 /\ land + impr > 0

\* faulty variant: the 0% parcels are not excluded
lt_10_mask_incl0(land, impr) ==
    LET s == improvement_share(land, impr)
    IN  share_ge(s, 0, 1) /\ share_lt(s, 1, 10)

lt_10_mask(land, impr) ==
    LET s == improvement_share(land, impr)
    IN  share_gt0(s) /\ share_lt(s, 1, 10)

from_10_25_mask(land, impr) ==
    LET s == improvement_share(land, impr)
    IN  share_ge(s, 1, 10) /\ share_lt(s, 1, 4)

from_25_50_mask(land, impr) ==
    LET s == improvement_share(land, impr)
    IN  share_ge(s, 1, 4) /\ share_lt(s, 1, 2)

\* the rows of one bucket, by the raw coerced values
category_mask(result_df, name) ==
    {i \in 1..Len(result_df) :
        LET land == result_df[i].land.v
            impr == result_df[i].impr.v
        IN  CASE name = "0% improvement" -> zero_impr_mask(land, impr)
              [] name = "<10% improvement (excl. 0%)" -> lt_10_mask(land, impr)
              [] name = "10-25% improvement" -> from_10_25_mask(land, impr)
              [] name = "25-50% improvement" -> from_25_50_mask(land, impr)}

\* ~fully_exempt_mask: result_df[exemption_flag_col] == 0, every row when
\* there is no flag column
non_exempt_mask(result_df, cfg) ==
    {i \in 1..Len(result_df) :
        ~(cfg.flag /\ fully_exempt_mask(result_df[i].flag.v))}

summarize_category(result_df, cfg, name, total_adj_land) ==
    LET adj_land == adj_land_of(result_df,
                        [impr |-> TRUE, exempt |-> cfg.exempt, flag |-> cfg.flag])
        m == category_mask(result_df, name) \cap non_exempt_mask(result_df, cfg)
        land_sum == SumSet(m, adj_land)
    IN  [category |-> name,
         parcel_count |-> Cardinality(m),
         adjusted_land_value |-> land_sum,
         share_of_total_land_value_pct |-> guarded_pct(land_sum, total_adj_land)]

ShareCategories ==
    <<"0% improvement", "<10% improvement (excl. 0%)", "10-25% improvement",
      "25-50% improvement">>

\* if total_adj_land <= 0: total_adj_land = 1.0
floor_denominator(total) == IF total <= 0 THEN 1 ELSE total

\* faulty variant: the floored denominator is reported as the total
reported_total_floored(total) == floor_denominator(total)

\* 'total_adjusted_land_value': float(adj_land[non_exempt_mask].sum()), the
\* sum taken again
reported_total(total) == total

analyze_land_by_improvement_share(d, cfg) ==
    LET result_df == coerced_copy(d, cfg)
        adj_land == adj_land_of(result_df,
                        [impr |-> TRUE, exempt |-> cfg.exempt, flag |-> cfg.flag])
        total == SumSet(non_exempt_mask(result_df, cfg), adj_land)
        total_adj_land == floor_denominator(total)
    IN  [fn |-> "improvement_share",
         total_adjusted_land_value |-> reported_total(total),
         categories |->
             [j \in 1..4 |-> summarize_category(result_df, cfg, ShareCategories[j],
                                                total_adj_land)]]

(***************************************************************************)
(* The caller's table and the tables a function works on.  A frame is a    *)
(* table (rows and column names) and whether it is the caller's table      *)
(* itself (shared): an assignment result_df[col] = ... to a shared frame   *)
(* rewrites the caller's table.                                            *)
(***************************************************************************)
\* df, the argument
caller_frame(d, cols) == [rows |-> d, cols |-> cols, shared |-> TRUE]

\* df[mask]: a boolean selection builds a new table
mask_select(frame, identifier) ==
    [rows |-> filter_type(frame.rows, identifier), cols |-> frame.cols,
     shared |-> FALSE]

\* faulty variant: the function works on the caller's table itself
copy_alias(frame) == frame

\* DataFrame.copy()
copy(frame) == [frame EXCEPT !.shared = FALSE]

\* the caller's table once the function has written to the frame work
caller_table(d, cols, work) ==
    IF work.shared THEN [rows |-> work.rows, cols |-> work.cols]
    ELSE [rows |-> d, cols |-> cols]

\* vacant_df = df[vacant_mask].copy(); nothing is assigned to it
vacant_df_frame(d, cols, vacant_identifier) ==
    copy(mask_select(caller_frame(d, cols), vacant_identifier))

\* parking_df = df[parking_mask].copy(), then the assignments of
\* parking_df['improvement_to_land_ratio'] and parking_df['land_value_tier']
\* (not reached on the empty selection, nor when the division raises)
parking_df_frame(d, cols, parking_identifier, cfg) ==
    LET parking_df == copy(mask_select(caller_frame(d, cols), parking_identifier))
    IN  IF empty_filter(parking_df.rows) \/ ~cfg.impr THEN parking_df
        ELSE [parking_df EXCEPT
                 !.cols = @ \cup {"improvement_to_land_ratio", "land_value_tier"}]

\* result_df = df.copy(), then the coerced columns are assigned to it
share_result_df(d, cols, cfg) ==
    [copy(caller_frame(d, cols)) EXCEPT !.rows = coerced_copy(d, cfg)]

\* result_df = df.copy(), then the coerced columns are assigned to it
category_result_df(d, cols, cfg) ==
    [copy(caller_frame(d, cols)) EXCEPT !.rows = coerced_copy(d, cfg)]

(***************************************************************************)
(* Inputs.                                                                 *)
(***************************************************************************)
Cells == {NaNCell, StrCell} \cup {Num(v) : v \in {-1} \cup 0..MaxVal}

AllColumns == {"land", "impr", "exempt", "flag", "ptype", "cat"}

AllocRows == [land : Cells, impr : Cells, exempt : Cells, flag : Cells,
              ptype : {"V"}, cat : {1}]

\* for each optional column of _compute_adjusted_values: the caller names
\* it and it is a column of the table
Cfgs == [impr : BOOLEAN, exempt : BOOLEAN, flag : BOOLEAN]

\* exemption_col, exemption_flag_col: given or None
ExemptCfgs == [exempt : BOOLEAN, flag : BOOLEAN]

\* "col is not None and col in df.columns" for the columns a caller names
Effective(cfg) ==
    [impr |-> "impr" \in columns,
     exempt |-> cfg.exempt /\ "exempt" \in columns,
     flag |-> cfg.flag /\ "flag" \in columns]

NoCall == [fn |-> "none"]

NoRes == [fn |-> "none"]

(***************************************************************************)
(* Specification of the exemption allocator: one parcel row, every         *)
(* combination of named columns.                                           *)
(***************************************************************************)
InitAlloc ==
    /\ df \in {<<r>> : r \in AllocRows}
    /\ columns = AllColumns
    /\ tie = "asc"
    /\ call = NoCall
    /\ res = NoRes
    /\ NetIdle

ComputeAdjustedValues ==
    \E cfg \in Cfgs :
        /\ call' = [fn |-> "adjusted", cfg |-> cfg]
        /\ res' = [fn |-> "adjusted", adj |-> compute_adjusted_values(df, cfg)]
        /\ UNCHANGED <<df, columns, tie>>
    /\ UNCHANGED netvars

NextAlloc == ComputeAdjustedValues

SpecAlloc == InitAlloc /\ [][NextAlloc]_vars

(***************************************************************************)
(* Specification of the table analyses: a table of up to MaxRows parcels   *)
(* and one call at a time of an analysis function on it; the caller drops  *)
(* the result before the next call.  There are two tables: an exemption    *)
(* roll (values, exemption amount and flag, a category; no property type)  *)
(* and a land use table (values, exemption amount, property type "V" for   *)
(* vacant and "P" for parking, a category; no flag).  A call that names a  *)
(* required column the table does not have raises KeyError and gives no    *)
(* result.  A table of n rows has at most n categories, 1..n.              *)
(***************************************************************************)
TableCells == {Num(0), Num(1)}

RollColumns == {"land", "impr", "exempt", "flag", "cat"}

LandUseColumns == {"land", "impr", "exempt", "ptype", "cat"}

RollRows == [land : TableCells, impr : TableCells, exempt : {Num(1)},
             flag : {Num(0), Num(1), Num(2)},
             ptype : {""}, cat : 1..MaxRows]

LandUseRows == [land : TableCells, impr : TableCells, exempt : {Num(1)},
                flag : {NaNCell},
                ptype : {"V", "P"}, cat : 1..MaxRows]

InitTable ==
    /\ \/ /\ df \in UNION {[1..n -> RollRows] : n \in 1..MaxRows}
          /\ columns = RollColumns
       \/ /\ df \in UNION {[1..n -> LandUseRows] : n \in 1..MaxRows}
          /\ columns = LandUseColumns
    /\ tie \in {"asc", "desc"}
    /\ call = NoCall
    /\ res = NoRes
    /\ NetIdle

AnalyzePropertyValuesByCategory ==
    /\ call.fn = "none"
    /\ \E cfg \in ExemptCfgs :
        \* result_df[exemption_col], result_df[exemption_flag_col]
        /\ cfg.exempt => "exempt" \in columns
        /\ cfg.flag => "flag" \in columns
        /\ call' = [fn |-> "by_category", cfg |-> cfg, n |-> 1]
        /\ res' = analyze_property_values_by_category(df, "cat", cfg, tie)
        /\ df' = caller_table(df, columns, category_result_df(df, columns, cfg)).rows
        /\ columns' = caller_table(df, columns, category_result_df(df, columns, cfg)).cols
    /\ tie' = quicksort_tie(tie)
    /\ UNCHANGED netvars

NoCols == [neighborhood |-> "", zoning |-> "", owner |-> ""]

AllCols == [neighborhood |-> "cat", zoning |-> "cat", owner |-> "cat"]

AnalyzeVacantLand ==
    /\ call.fn = "none"
    \* df[property_type_col]
    /\ "ptype" \in columns
    /\ \E cfg \in ExemptCfgs, cols \in {NoCols, AllCols} :
        /\ call' = [fn |-> "vacant_land", cfg |-> cfg, cols |-> cols]
        /\ res' = analyze_vacant_land(df, "V", cols, Effective(cfg), tie)
    /\ df' = caller_table(df, columns, vacant_df_frame(df, columns, "V")).rows
    /\ columns' = caller_table(df, columns, vacant_df_frame(df, columns, "V")).cols
    /\ tie' = quicksort_tie(tie)
    /\ UNCHANGED netvars

\* max_improvement_ratio: a half, and 1 (the ratio of a parcel whose
\* improvement value equals its land value)
MaxRatios == {Fin(1, 2), Fin(1, 1)}

AnalyzeParkingLots ==
    /\ call.fn = "none"
    \* df[property_type_col]
    /\ "ptype" \in columns
    /\ \E cfg \in ExemptCfgs, max_improvement_ratio \in MaxRatios :
        /\ call' = [fn |-> "parking_lots", cfg |-> cfg,
                    min_land_value_threshold |-> 1,
                    max_improvement_ratio |-> max_improvement_ratio]
        /\ res' = analyze_parking_lots(df, "P", 1, max_improvement_ratio,
                                       Effective(cfg))
        /\ df' = caller_table(df, columns,
                      parking_df_frame(df, columns, "P", Effective(cfg))).rows
        /\ columns' = caller_table(df, columns,
                           parking_df_frame(df, columns, "P", Effective(cfg))).cols
    /\ UNCHANGED tie
    /\ UNCHANGED netvars

\* the caller is done with the result
Return ==
    /\ call.fn /= "none"
    /\ call' = NoCall
    /\ res' = NoRes
    /\ UNCHANGED <<df, columns, tie>>
    /\ UNCHANGED netvars

\* a second call of analyze_property_values_by_category with the arguments
\* of the first, on the table as the first call left it
AnalyzePropertyValuesByCategoryAgain ==
    /\ call.fn = "by_category"
    /\ call.n = 1
    /\ call' = [call EXCEPT !.n = 2]
    /\ res' = analyze_property_values_by_category(df, "cat", call.cfg, tie)
    /\ df' = caller_table(df, columns, category_result_df(df, columns, call.cfg)).rows
    /\ columns' = caller_table(df, columns,
                       category_result_df(df, columns, call.cfg)).cols
    /\ tie' = quicksort_tie(tie)
    /\ UNCHANGED netvars

AnalyzeLandByImprovementShare ==
    /\ call.fn = "none"
    /\ \E cfg \in ExemptCfgs :
        /\ call' = [fn |-> "improvement_share", cfg |-> cfg]
        /\ res' = analyze_land_by_improvement_share(df, Effective(cfg))
        /\ df' = caller_table(df, columns,
                      share_result_df(df, columns, Effective(cfg))).rows
        /\ columns' = caller_table(df, columns,
                           share_result_df(df, columns, Effective(cfg))).cols
    /\ UNCHANGED tie
    /\ UNCHANGED netvars

NextTable ==
    \/ AnalyzePropertyValuesByCategory
    \/ AnalyzeVacantLand
    \/ AnalyzeParkingLots
    \/ Return

SpecTable == InitTable /\ [][NextTable]_vars

(***************************************************************************)
(* Specification of the development tax penalty: a table whose column     *)
(* 'improvement_value' (impr) holds numeric or missing cells and that has  *)
(* a second value column (land); the caller names either of them.          *)
(***************************************************************************)
PenaltyCells == {NaNCell} \cup {Num(v) : v \in {-1} \cup 0..MaxVal}

PenaltyRows == [land : {Num(0), Num(1)}, impr : PenaltyCells, exempt : {Num(0)},
                flag : {Num(0)}, ptype : {"V"}, cat : {1}]

\* the columns a caller names as improvement_value_col: the column called
\* 'improvement_value' (impr) or another value column of the table (land)
PenaltyValueCols == {"impr", "land"}

InitPenalty ==
    /\ df \in UNION {[1..n -> PenaltyRows] : n \in 1..MaxRows}
    /\ columns = AllColumns
    /\ tie = "asc"
    /\ call = NoCall
    /\ res = NoRes
    /\ NetIdle

CalculateDevelopmentTaxPenalty ==
    /\ call.fn = "none"
    /\ \E years \in 1..MaxYears, discount_rate \in {ZeroF, Fin(1, 2)},
          improvement_value_col \in PenaltyValueCols :
        /\ call' = [fn |-> "tax_penalty", years |-> years,
                    discount_rate |-> discount_rate,
                    improvement_value_col |-> improvement_value_col]
        \* a text cell makes Series.sum() and the comparison > 0 raise
        \* TypeError: no result
        /\ \A i \in 1..Len(df) :
               df[i][improvement_value_col].t /= "str" /\ df[i].impr.t /= "str"
        /\ res' = calculate_development_tax_penalty(df, improvement_value_col,
                      Fin(1, 100), years, discount_rate, 2)
    \* the function reads df and assigns nothing to it
    /\ df' = caller_table(df, columns, caller_frame(df, columns)).rows
    /\ columns' = caller_table(df, columns, caller_frame(df, columns)).cols
    /\ UNCHANGED tie
    /\ UNCHANGED netvars

NextPenalty ==
    \/ CalculateDevelopmentTaxPenalty
    \/ Return

SpecPenalty == InitPenalty /\ [][NextPenalty]_vars

(***************************************************************************)
(* Specification of the owner concentration: a land use table of n vacant  *)
(* parcels of n owners, n up to MaxOwners, whose land values follow one of *)
(* three patterns: ascending with the owner key, descending, repeating;    *)
(* a table of n vacant parcels whose owner value is missing; and one of n  *)
(* owners where every other parcel has no owner value.                     *)
(***************************************************************************)
OwnerLand(p, n, i) ==
    IF p = 1 THEN i ELSE IF p = 2 THEN n + 1 - i ELSE i % 3

OwnerTable(p, n) ==
    [i \in 1..n |-> [land |-> Num(OwnerLand(p, n, i)), impr |-> Num(0),
                     exempt |-> Num(1), flag |-> NaNCell,
                     ptype |-> "V",
                     cat |-> IF p = 4 \/ (p = 5 /\ i % 2 = 1) THEN NaNKey ELSE i]]

InitOwners ==
    /\ df \in {OwnerTable(p, n) : p \in 1..5, n \in 1..MaxOwners}
    /\ columns = LandUseColumns
    /\ tie \in {"asc", "desc"}
    /\ call = NoCall
    /\ res = NoRes
    /\ NetIdle

NextOwners ==
    \/ AnalyzeVacantLand
    \/ Return

SpecOwners == InitOwners /\ [][NextOwners]_vars

(***************************************************************************)
(* Specification of the analyses of a land use table that has no           *)
(* improvement column: land value, exemption amount, property type and a   *)
(* category.  The cells of the missing columns are fillers.                *)
(***************************************************************************)
LandOnlyColumns == {"land", "exempt", "ptype", "cat"}

LandOnlyRows == [land : TableCells, impr : {NaNCell}, exempt : {Num(1)},
                 flag : {NaNCell}, ptype : {"V", "P"}, cat : 1..MaxRows]

InitLandOnly ==
    /\ df \in UNION {[1..n -> LandOnlyRows] : n \in 1..MaxRows}
    /\ columns = LandOnlyColumns
    /\ tie = "asc"
    /\ call = NoCall
    /\ res = NoRes
    /\ NetIdle

NextLandOnly ==
    \/ AnalyzeVacantLand
    \/ AnalyzeParkingLots
    \/ Return

SpecLandOnly == InitLandOnly /\ [][NextLandOnly]_vars

(***************************************************************************)
(* Specification of a session on one table: a table of up to MaxRows       *)
(* parcels that has every column and holds missing and text cells, and any *)
(* sequence of calls of the five analysis functions on it, among them two  *)
(* successive calls of analyze_property_values_by_category with the same   *)
(* arguments.  The table of a state is the caller's table as the calls so  *)
(* far have left it.                                                       *)
(***************************************************************************)
SessionRows == [land : {Num(1), StrCell}, impr : {Num(1), NaNCell},
                exempt : {Num(1)}, flag : {Num(0)},
                ptype : {"V", "P"}, cat : {1, 2}]

InitSession ==
    /\ df \in UNION {[1..n -> SessionRows] : n \in 1..MaxRows}
    /\ columns = AllColumns
    /\ tie \in {"asc", "desc"}
    /\ call = NoCall
    /\ res = NoRes
    /\ NetIdle

NextSession ==
    \/ AnalyzePropertyValuesByCategory
    \/ AnalyzePropertyValuesByCategoryAgain
    \/ AnalyzeVacantLand
    \/ AnalyzeParkingLots
    \/ AnalyzeLandByImprovementShare
    \/ CalculateDevelopmentTaxPenalty
    \/ Return

SpecSession == InitSession /\ [][NextSession]_vars

(***************************************************************************)
(* Specification of the improvement-share summary: an exemption roll of up *)
(* to MaxRows parcels whose raw land and improvement values put them in    *)
(* each bucket, on the bounds of the buckets and outside of them, with an  *)
(* exemption amount of 0 or 2 and a flag of 0 or 2.                        *)
(***************************************************************************)
\* <<land, improvement>>: no value; 0%; 1/11; 10%; 25%; 50%; 1/11 of a
\* negative total
ShareValues == {<<0, 0>>, <<2, 0>>, <<10, 1>>, <<9, 1>>, <<3, 1>>, <<1, 1>>,
                <<-10, -1>>}

ShareRows ==
    {[land |-> Num(v[1]), impr |-> Num(v[2]), exempt |-> Num(e), flag |-> Num(f),
      ptype |-> "", cat |-> 1] : v \in ShareValues, e \in {0, 2}, f \in {0, 2}}

InitShare ==
    /\ df \in UNION {[1..n -> ShareRows] : n \in 1..MaxRows}
    /\ columns = RollColumns
    /\ tie = "asc"
    /\ call = NoCall
    /\ res = NoRes
    /\ NetIdle

NextShare ==
    \/ AnalyzeLandByImprovementShare
    \/ Return

SpecShare == InitShare /\ [][NextShare]_vars

(***************************************************************************)
(* Network fetchers.                                                       *)
(*                                                                         *)
(* An ArcGIS service holds the records 1..count in a fixed order.  It      *)
(* answers a page request (resultOffset, resultRecordCount) with the       *)
(* records that follow the offset: at most resultRecordCount of them, and  *)
(* at most its own limit per response (the service's maxRecordCount,       *)
(* server.page).  A request past the last record is answered with no       *)
(* features.  A request may also fail (requests.RequestException).         *)
(***************************************************************************)
MaxCount == 5

\* chunk_size = 2000 in both fetchers: the model bounds the number, so that
\* a service of up to MaxCount records spans several chunks
chunk_size == 2

max_failed_attempts == 3

Min(a, b) == IF a <= b THEN a ELSE b

\* the records first..last of the service, in order
Records(first, last) == [i \in 1..(last - first + 1) |-> first + i - 1]

Servers == [count : 0..MaxCount, page : 1..(chunk_size + 1)]

\* data['features'] of the response to a page request
server_page(srv, resultOffset, resultRecordCount) ==
    LET last == Min(srv.count,
                    resultOffset + Min(resultRecordCount, srv.page))
    IN  IF last > resultOffset THEN Records(resultOffset + 1, last) ELSE <<>>

\* no table is analysed while a fetcher runs
TableIdle ==
    /\ df = <<>>
    /\ columns = {}
    /\ tie = "asc"
    /\ call = NoCall
    /\ res = NoRes

(***************************************************************************)
(* get_mapserver_data_with_resume.  max_records = 0 stands for both None   *)
(* and 0, which `if max_records:` treats alike.  The function returns a    *)
(* frame of all_features, or None when all_features is empty.              *)
(***************************************************************************)
capped_total(count, max_records) ==
    IF max_records /= 0 THEN Min(count, max_records) ELSE count

loop_condition(l) ==
    l.offset < l.total_records /\ l.failed_attempts < max_failed_attempts

\* faulty variant of next_offset: the offset stays where it is
next_offset_stuck(offset) == offset

next_offset(offset) == offset + chunk_size

resume_result(l) == IF l.all_features /= <<>> THEN "frame" ELSE "None"

ResumeLocals == [fn |-> "resume", total_records |-> 0, offset |-> 0,
                 failed_attempts |-> 0, all_features |-> <<>>,
                 result |-> "pending"]

\* trace of the runs: run is 1 for a first run and 2 for the run that
\* resumes it; start is the first run's start_offset and first its
\* all_features; gave_up tells that the present run printed the resume
\* hint, reported is the offset it printed; failing counts the failing
\* requests issued in a row for the present offset
ResumeTrace == [run |-> 1, start |-> 0, first |-> <<>>, gave_up |-> FALSE,
                reported |-> 0, failing |-> 0]

InitResume ==
    /\ TableIdle
    /\ pc = "idle"
    /\ args = [fn |-> "none"]
    /\ server \in Servers
    /\ loc = [fn |-> "none"]
    /\ trace = ResumeTrace

GetMapserverDataWithResume ==
    /\ pc = "idle"
    /\ \E max_records \in 0..MaxCount, start_offset \in 0..MaxCount :
        /\ args' = [fn |-> "resume", max_records |-> max_records,
                    start_offset |-> start_offset]
        /\ trace' = [ResumeTrace EXCEPT !.start = start_offset]
    /\ pc' = "count"
    /\ loc' = ResumeLocals
    /\ UNCHANGED server
    /\ UNCHANGED tablevars

\* the count query is answered
CountQuery ==
    /\ pc = "count"
    /\ LET total_records == capped_total(server.count, args.max_records)
       IN  IF total_records = 0
           THEN /\ loc' = [loc EXCEPT !.result = "None"]
                /\ pc' = "done"
           ELSE /\ loc' = [loc EXCEPT !.total_records = total_records,
                                      !.offset = args.start_offset]
                /\ pc' = "loop"
    /\ UNCHANGED <<args, server, trace>>
    /\ UNCHANGED tablevars

\* the count query fails: the outer handler returns None
CountQueryFails ==
    /\ pc = "count"
    /\ loc' = [loc EXCEPT !.result = "None"]
    /\ pc' = "done"
    /\ UNCHANGED <<args, server, trace>>
    /\ UNCHANGED tablevars

\* one pass of the while loop whose request is answered
ChunkRequestAnswered ==
    /\ pc = "loop"
    /\ loop_condition(loc)
    /\ LET features == server_page(server, loc.offset, chunk_size)
           fetched == loc.all_features \o features
       IN  IF features /= <<>>
           THEN IF Len(features) < chunk_size
                THEN \* break
                     /\ loc' = [loc EXCEPT !.all_features = fetched,
                                           !.result = resume_result(
                                               [loc EXCEPT !.all_features = fetched])]
                     /\ pc' = "done"
                ELSE /\ loc' = [loc EXCEPT !.all_features = fetched,
                                           !.offset = next_offset(loc.offset),
                                           !.failed_attempts = 0]
                     /\ pc' = "loop"
           ELSE \* no features: break
                /\ loc' = [loc EXCEPT !.result = resume_result(loc)]
                /\ pc' = "done"
    /\ trace' = [trace EXCEPT !.failing = 0]
    /\ UNCHANGED <<args, server>>
    /\ UNCHANGED tablevars

\* one pass of the while loop whose request raises RequestException
ChunkRequestFails ==
    /\ pc = "loop"
    /\ loop_condition(loc)
    /\ LET failed_attempts == loc.failed_attempts + 1
       IN  IF failed_attempts < max_failed_attempts
           THEN /\ loc' = [loc EXCEPT !.failed_attempts = failed_attempts]
                /\ pc' = "loop"
                /\ trace' = [trace EXCEPT !.failing = @ + 1]
           ELSE \* "To resume, use start_offset={offset}"; break
                /\ loc' = [loc EXCEPT !.failed_attempts = failed_attempts,
                                      !.result = resume_result(loc)]
                /\ pc' = "done"
                /\ trace' = [trace EXCEPT !.failing = @ + 1,
                                          !.gave_up = TRUE,
                                          !.reported = loc.offset]
    /\ UNCHANGED <<args, server>>
    /\ UNCHANGED tablevars

\* the loop condition is false: the loop ends
LoopEnds ==
    /\ pc = "loop"
    /\ ~loop_condition(loc)
    /\ loc' = [loc EXCEPT !.result = resume_result(loc)]
    /\ pc' = "done"
    /\ UNCHANGED <<args, server, trace>>
    /\ UNCHANGED tablevars

\* the caller runs the function again on the unchanged server, with the
\* start_offset that the run that gave up printed
ResumeRun ==
    /\ pc = "done"
    /\ trace.run = 1
    /\ trace.gave_up
    /\ args' = [args EXCEPT !.start_offset = trace.reported]
    /\ trace' = [trace EXCEPT !.run = 2, !.first = loc.all_features,
                              !.gave_up = FALSE, !.failing = 0]
    /\ loc' = ResumeLocals
    /\ pc' = "count"
    /\ UNCHANGED server
    /\ UNCHANGED tablevars

NextResume ==
    \/ GetMapserverDataWithResume
    \/ CountQuery
    \/ CountQueryFails
    \/ ChunkRequestAnswered
    \/ ChunkRequestFails
    \/ LoopEnds
    \/ ResumeRun

SpecResume == InitResume /\ [][NextResume]_vars

\* the interpreter runs the function to its end: a step that can be taken
\* is taken
SpecResumeFair == SpecResume /\ WF_vars(NextResume)

(***************************************************************************)
(* get_feature_data.  The function returns a frame of all_features (an     *)
(* empty frame when there are none), or None when a request raised         *)
(* RequestException.  trace.failed tells that a request of the run raised  *)
(* or was answered without a 'features' key; trace.requests lists the      *)
(* offsets of the page requests issued.                                    *)
(***************************************************************************)
FeatureLocals == [fn |-> "feature_data", total_records |-> 0, offset |-> 0,
                  all_features |-> <<>>, result |-> "pending"]

FeatureTrace == [failed |-> FALSE, requests |-> <<>>]

InitFeatureData ==
    /\ TableIdle
    /\ pc = "idle"
    /\ args = [fn |-> "none"]
    /\ server \in Servers
    /\ loc = [fn |-> "none"]
    /\ trace = FeatureTrace

GetFeatureData ==
    /\ pc = "idle"
    /\ args' = [fn |-> "feature_data"]
    /\ pc' = "count"
    /\ loc' = FeatureLocals
    /\ UNCHANGED <<server, trace>>
    /\ UNCHANGED tablevars

\* the count query is answered
FeatureCountQuery ==
    /\ pc = "count"
    /\ args.fn = "feature_data"
    /\ loc' = [loc EXCEPT !.total_records = server.count]
    /\ pc' = "loop"
    /\ UNCHANGED <<args, server, trace>>
    /\ UNCHANGED tablevars

\* one pass of the while loop whose response has a 'features' key
FeaturePageAnswered ==
    /\ pc = "loop"
    /\ args.fn = "feature_data"
    /\ loc.offset < loc.total_records
    /\ LET features == server_page(server, loc.offset, chunk_size)
           fetched == loc.all_features \o features
       IN  IF Len(features) < chunk_size
           THEN \* break
                /\ loc' = [loc EXCEPT !.all_features = fetched,
                                      !.result = "frame"]
                /\ pc' = "done"
           ELSE /\ loc' = [loc EXCEPT !.all_features = fetched,
                                      !.offset = loc.offset + chunk_size]
                /\ pc' = "loop"
    /\ trace' = [trace EXCEPT !.requests = Append(@, loc.offset)]
    /\ UNCHANGED <<args, server>>
    /\ UNCHANGED tablevars

\* one pass of the while loop whose response has no 'features' key (the
\* service answered with an error document): break
FeatureErrorResponse ==
    /\ pc = "loop"
    /\ args.fn = "feature_data"
    /\ loc.offset < loc.total_records
    /\ loc' = [loc EXCEPT !.result = "frame"]
    /\ pc' = "done"
    /\ trace' = [trace EXCEPT !.failed = TRUE,
                              !.requests = Append(@, loc.offset)]
    /\ UNCHANGED <<args, server>>
    /\ UNCHANGED tablevars

\* the count query or a page request raises RequestException: return None
FeatureRequestFails ==
    /\ args.fn = "feature_data"
    /\ \/ pc = "count"
       \/ pc = "loop" /\ loc.offset < loc.total_records
    /\ loc' = [loc EXCEPT !.result = "None"]
    /\ pc' = "done"
    /\ trace' = [trace EXCEPT !.failed = TRUE]
    /\ UNCHANGED <<args, server>>
    /\ UNCHANGED tablevars

\* the loop condition is false: return the frame
FeatureLoopEnds ==
    /\ pc = "loop"
    /\ args.fn = "feature_data"
    /\ ~(loc.offset < loc.total_records)
    /\ loc' = [loc EXCEPT !.result = "frame"]
    /\ pc' = "done"
    /\ UNCHANGED <<args, server, trace>>
    /\ UNCHANGED tablevars

NextFeatureData ==
    \/ GetFeatureData
    \/ FeatureCountQuery
    \/ FeaturePageAnswered
    \/ FeatureErrorResponse
    \/ FeatureRequestFails
    \/ FeatureLoopEnds

SpecFeatureData == InitFeatureData /\ [][NextFeatureData]_vars

(***************************************************************************)
(* get_census_blockgroups_shapefile and                                    *)
(* get_census_blockgroups_shapefile_chunked (census_utils.py).             *)
(*                                                                         *)
(* The county has server.tracts census tracts, numbered from 1.  A         *)
(* fips_code is one of four kinds: not a string, a string that is not 5    *)
(* characters long, a code of the large_counties list, another code.       *)
(* loc.caller is the place the chunked fetch was entered from: "top" (the  *)
(* caller of the module), or a line of get_census_blockgroups_shapefile:   *)
(* "large" (line 232), "html" (line 255, inside the try block), "except"   *)
(* (line 276, the exception handler).  loc.result is the frame or the      *)
(* exception the call ends with and loc.line the line that ended it.       *)
(* trace counts the direct requests and the invocations of the chunked     *)
(* fetch of the call, all requests issued (total), and for the present     *)
(* invocation of the chunked fetch the requests per tract, the tracts that *)
(* yielded block groups and the tracts given up after max_retries          *)
(* failures.                                                               *)
(***************************************************************************)
MaxTracts == 3

MaxRetries == 2

\* max_retries: int = 3
default_max_retries == 3

FipsKinds == {"not_str", "bad_len", "large", "other"}

\* the exception of the argument checks, "" when fips_code passes them
fips_error(fips_code) ==
    CASE fips_code = "not_str" -> "TypeError"
      [] fips_code = "bad_len" -> "ValueError"
      [] OTHER -> ""

in_large_counties(fips_code) == fips_code = "large"

CensusLocals == [fn |-> "census", caller |-> "none", tract_numbers |-> 0,
                 tract |-> 0, retry_count |-> 0, all_block_groups |-> <<>>,
                 result |-> "pending", line |-> 0]

NoRequests == [t \in 1..MaxTracts |-> 0]

CensusTrace == [direct |-> 0, chunked |-> 0, total |-> 0,
                requests |-> NoRequests, yielded |-> {}, skipped |-> {}]

\* the call ends at `line` with `result`
Ends(result, line, l, tr) ==
    /\ loc' = [l EXCEPT !.result = result, !.line = line]
    /\ trace' = tr
    /\ pc' = "done"

\* get_census_blockgroups_shapefile_chunked is entered from `caller`; its
\* argument checks have passed
EnterChunked(caller, tr) ==
    /\ loc' = [CensusLocals EXCEPT !.caller = caller]
    /\ trace' = [tr EXCEPT !.chunked = @ + 1, !.requests = NoRequests,
                           !.yielded = {}, !.skipped = {}]
    /\ pc' = "tracts"

\* the exceptions that the handler of line 273 catches
caught(result) == result \in {"RequestException", "ValueError", "KeyError"}

\* get_census_blockgroups_shapefile_chunked ends at `line` with `result`:
\* an exception raised under the call of line 255 is raised inside the try
\* block, and the handler of line 273 calls the chunked fetch again
LeaveChunked(result, line, l, tr) ==
    IF l.caller = "html" /\ caught(result)
    THEN EnterChunked("except", tr)
    ELSE Ends(result, line, l, tr)

\* faulty variant of retry_loop_condition: one request more
retry_loop_condition_incl(retry_count, max_retries) == retry_count <= max_retries

retry_loop_condition(retry_count, max_retries) == retry_count < max_retries

InitCensus ==
    /\ TableIdle
    /\ pc = "idle"
    /\ args = [fn |-> "none"]
    /\ server \in [tracts : 0..MaxTracts]
    /\ loc = [fn |-> "none"]
    /\ trace = CensusTrace

GetCensusBlockgroupsShapefile ==
    /\ pc = "idle"
    /\ \E fips_code \in FipsKinds :
        /\ args' = [fn |-> "shapefile", fips_code |-> fips_code,
                    max_retries |-> default_max_retries]
        /\ IF fips_error(fips_code) /= ""
           THEN Ends(fips_error(fips_code),
                     IF fips_code = "not_str" THEN 211 ELSE 213,
                     CensusLocals, trace)
           ELSE IF in_large_counties(fips_code)
           THEN EnterChunked("large", trace)
           ELSE /\ loc' = CensusLocals
                /\ pc' = "direct"
                /\ UNCHANGED trace
    /\ UNCHANGED server
    /\ UNCHANGED tablevars

\* the direct request of the county: answered with GeoJSON ("ok"), with an
\* HTML page ("html"), with a body that json() or from_features cannot
\* read ("unparsable"), or it raises RequestException ("fail")
DirectRequest ==
    /\ pc = "direct"
    /\ \E outcome \in {"ok", "html", "unparsable", "fail"} :
        LET tr == [trace EXCEPT !.direct = @ + 1, !.total = @ + 1]
        IN  CASE outcome = "ok" -> Ends("frame", 271, loc, tr)
              [] outcome = "html" -> EnterChunked("html", tr)
              [] OTHER -> EnterChunked("except", tr)
    /\ UNCHANGED <<args, server>>
    /\ UNCHANGED tablevars

GetCensusBlockgroupsShapefileChunked ==
    /\ pc = "idle"
    /\ \E fips_code \in FipsKinds, max_retries \in 0..MaxRetries :
        /\ args' = [fn |-> "chunked", fips_code |-> fips_code,
                    max_retries |-> max_retries]
        /\ IF fips_error(fips_code) /= ""
           THEN Ends(fips_error(fips_code),
                     IF fips_code = "not_str" THEN 100 ELSE 102,
                     CensusLocals, trace)
           ELSE EnterChunked("top", trace)
    /\ UNCHANGED server
    /\ UNCHANGED tablevars

\* the request of the county's tracts: answered with the tracts ("ok"),
\* answered without a 'features' key ("no_features"), or it raises
\* RequestException ("fail")
TractsRequest ==
    /\ pc = "tracts"
    /\ \E outcome \in {"ok", "no_features", "fail"} :
        LET tr == [trace EXCEPT !.total = @ + 1]
        IN  CASE outcome = "ok" ->
                   /\ loc' = [loc EXCEPT !.tract_numbers = server.tracts,
                                         !.tract = 1,
                                         !.retry_count = 0]
                   /\ trace' = tr
                   /\ pc' = "tract"
              [] outcome = "no_features" ->
                   LeaveChunked("ValueError", 124, loc, tr)
              [] OTHER ->
                   LeaveChunked("RequestException", 131, loc, tr)
    /\ UNCHANGED <<args, server>>
    /\ UNCHANGED tablevars

\* one pass of the retry loop for the tract loc.tract: the request is
\* answered with block groups ("features"), answered with none ("empty"),
\* or it raises RequestException ("fail")
BlockGroupRequest ==
    /\ pc = "tract"
    /\ loc.tract <= loc.tract_numbers
    /\ retry_loop_condition(loc.retry_count, args.max_retries)
    /\ \E outcome \in {"features", "empty", "fail"} :
        LET tr == [trace EXCEPT !.total = @ + 1,
                                !.requests[loc.tract] = @ + 1]
        IN  CASE outcome = "features" ->
                   \* append; break; the next tract
                   /\ loc' = [loc EXCEPT
                                !.all_block_groups = Append(@, loc.tract),
                                !.tract = @ + 1,
                                !.retry_count = 0]
                   /\ trace' = [tr EXCEPT !.yielded = @ \cup {loc.tract}]
              [] outcome = "empty" ->
                   \* break; the next tract
                   /\ loc' = [loc EXCEPT !.tract = @ + 1, !.retry_count = 0]
                   /\ trace' = tr
              [] OTHER ->
                   /\ loc' = [loc EXCEPT !.retry_count = @ + 1]
                   /\ trace' = IF loc.retry_count + 1 >= args.max_retries
                               THEN [tr EXCEPT !.skipped = @ \cup {loc.tract}]
                               ELSE tr
    /\ pc' = "tract"
    /\ UNCHANGED <<args, server>>
    /\ UNCHANGED tablevars

\* the condition of the retry loop is false: the for loop takes the next
\* tract
NextTract ==
    /\ pc = "tract"
    /\ loc.tract <= loc.tract_numbers
    /\ ~retry_loop_condition(loc.retry_count, args.max_retries)
    /\ loc' = [loc EXCEPT !.tract = @ + 1, !.retry_count = 0]
    /\ pc' = "tract"
    /\ UNCHANGED <<args, server, trace>>
    /\ UNCHANGED tablevars

\* the for loop is over
TractsDone ==
    /\ pc = "tract"
    /\ loc.tract > loc.tract_numbers
    /\ IF loc.all_block_groups = <<>>
       THEN LeaveChunked("ValueError", 175, loc, trace)
       ELSE LeaveChunked("frame", 192, loc, trace)
    /\ UNCHANGED <<args, server>>
    /\ UNCHANGED tablevars

NextCensus ==
    \/ GetCensusBlockgroupsShapefile
    \/ DirectRequest
    \/ GetCensusBlockgroupsShapefileChunked
    \/ TractsRequest
    \/ BlockGroupRequest
    \/ NextTract
    \/ TractsDone

SpecCensus == InitCensus /\ [][NextCensus]_vars


(***************************************************************************)
(* Properties of the exemption allocator (checked under SpecAlloc).        *)
(***************************************************************************)
Adjusted == res.fn = "adjusted"

\* the row is fully exempt for the call: the flag column is used and the
\* flag coerces to a nonzero number
FlagSet(r, cfg) == cfg.flag /\ Coerce(r.flag) /= 0

\* C1: every adjusted land value is >= 0 and, when improvements are tracked,
\* every adjusted improvement value is >= 0, for every row and every
\* combination of columns.
C1_NonNegative ==
    Adjusted =>
        \A i \in 1..Len(df) :
            /\ res.adj[i].land >= 0
            /\ res.adj[i].tracked => res.adj[i].impr >= 0

C3_ExemptionExceedsImprovement ==
    Adjusted =>
        \A i \in 1..Len(df) :
            LET land == Coerce(df[i].land)
                impr == Coerce(df[i].impr)
                ex   == Coerce(df[i].exempt)
            IN  ( /\ call.cfg.impr
                  /\ call.cfg.exempt
                  /\ ~FlagSet(df[i], call.cfg)
                  /\ ex > impr )
                => /\ res.adj[i].impr = 0
                   /\ res.adj[i].land = Max(land - (ex - impr), 0)

C3_Witness ==
    /\ Adjusted
    /\ call.cfg.impr /\ call.cfg.exempt
    /\ ~FlagSet(df[1], call.cfg)
    /\ Coerce(df[1].land) = 2
    /\ Coerce(df[1].impr) = 1
    /\ Coerce(df[1].exempt) = 2
    /\ res.adj[1].land = 1
    /\ res.adj[1].impr = 0

\* the case of C4: not fully exempt, improvements tracked, exemption amount
\* present and <= improvement
C4_Case(i) ==
    /\ call.cfg.impr
    /\ call.cfg.exempt
    /\ ~FlagSet(df[i], call.cfg)
    /\ Coerce(df[i].exempt) <= Coerce(df[i].impr)

\* C4 as stated: exemption <= improvement gives adjusted improvement =
\* improvement - exemption and adjusted land equal to the coerced raw land.
C4_LandUnchanged ==
    Adjusted =>
        \A i \in 1..Len(df) :
            C4_Case(i) =>
                /\ res.adj[i].impr = Coerce(df[i].impr) - Coerce(df[i].exempt)
                /\ res.adj[i].land = Coerce(df[i].land)

\* C4 amended: exemption <= improvement gives adjusted improvement =
\* improvement - exemption and adjusted land = max(coerced raw land, 0),
\* which is the raw land whenever the raw land is not negative.
C4_LandClamped ==
    Adjusted =>
        \A i \in 1..Len(df) :
            C4_Case(i) =>
                /\ res.adj[i].impr = Coerce(df[i].impr) - Coerce(df[i].exempt)
                /\ res.adj[i].land = Max(Coerce(df[i].land), 0)

C4_Witness ==
    /\ Adjusted
    /\ C4_Case(1)
    /\ Coerce(df[1].land) = 2
    /\ Coerce(df[1].impr) = 2
    /\ Coerce(df[1].exempt) = 1
    /\ res.adj[1].land = 2
    /\ res.adj[1].impr = 1

\* the number a cell stands for: its value, 0 for a missing or text cell
ValueOrZero(c) == IF c.t = "num" THEN c.v ELSE 0

\* the cell of a column the call uses is missing or text
Unparsed(c) == c.t /= "num"

\* the row is fully exempt for the call, by the numbers its cells stand for
ExemptRow(r, cfg) == cfg.flag /\ ValueOrZero(r.flag) /= 0

\* adjusted land and improvement of a row by steps 2 and 3 of the algorithm,
\* from the numbers l, m, e, f its cells stand for
ExpectedLand(l, m, e, f, cfg) ==
    IF cfg.flag /\ f /= 0 THEN 0
    ELSE IF ~cfg.exempt THEN l
    ELSE IF cfg.impr THEN Max(l - Max(e - m, 0), 0)
    ELSE Max(l - e, 0)

ExpectedImpr(l, m, e, f, cfg) ==
    IF cfg.flag /\ f /= 0 THEN 0
    ELSE IF ~cfg.exempt THEN m
    ELSE Max(m - e, 0)

\* a row with a missing or text flag is not fully exempt: its adjusted
\* values are those of the partial exemption alone
UnparsedFlagNotExempt(i) ==
    LET r == df[i]
        cfg == call.cfg
        noflag == [cfg EXCEPT !.flag = FALSE]
    IN  (cfg.flag /\ Unparsed(r.flag)) =>
            /\ res.adj[i].land =
                   ExpectedLand(ValueOrZero(r.land), ValueOrZero(r.impr),
                                ValueOrZero(r.exempt), 0, noflag)
            /\ cfg.impr =>
                   res.adj[i].impr =
                       ExpectedImpr(ValueOrZero(r.land), ValueOrZero(r.impr),
                                    ValueOrZero(r.exempt), 0, noflag)

\* C16 as stated: a row with a missing or text flag is not fully exempt, and
\* a row with a missing or text exemption amount that is not fully exempt
\* keeps its coerced land and improvement values.
C16_UnparsedKeepsValues ==
    Adjusted =>
        \A i \in 1..Len(df) :
            /\ UnparsedFlagNotExempt(i)
            /\ ( /\ call.cfg.exempt
                 /\ Unparsed(df[i].exempt)
                 /\ ~ExemptRow(df[i], call.cfg) )
               => /\ res.adj[i].land = ValueOrZero(df[i].land)
                  /\ call.cfg.impr => res.adj[i].impr = ValueOrZero(df[i].impr)

\* C16 amended: every missing or text cell counts as the number 0 (the
\* adjusted values are those of the algorithm on the numbers the cells stand
\* for); a row with a missing or text flag is not fully exempt; a row with a
\* missing or text exemption amount that is not fully exempt keeps its
\* coerced land and improvement values when neither is negative.
C16_UnparsedIsZero ==
    Adjusted =>
        \A i \in 1..Len(df) :
            LET l == ValueOrZero(df[i].land)
                m == ValueOrZero(df[i].impr)
                e == ValueOrZero(df[i].exempt)
                f == ValueOrZero(df[i].flag)
            IN  /\ res.adj[i].land = ExpectedLand(l, m, e, f, call.cfg)
                /\ call.cfg.impr =>
                       res.adj[i].impr = ExpectedImpr(l, m, e, f, call.cfg)
                /\ UnparsedFlagNotExempt(i)
                /\ ( /\ call.cfg.exempt
                     /\ Unparsed(df[i].exempt)
                     /\ ~ExemptRow(df[i], call.cfg)
                     /\ l >= 0
                     /\ call.cfg.impr => m >= 0 )
                   => /\ res.adj[i].land = l
                      /\ call.cfg.impr => res.adj[i].impr = m

\* a text flag and a missing exemption amount: the row keeps its values
C16_Witness ==
    /\ Adjusted
    /\ call.cfg = [impr |-> TRUE, exempt |-> TRUE, flag |-> TRUE]
    /\ df[1].flag = StrCell
    /\ df[1].exempt = NaNCell
    /\ df[1].land = Num(2)
    /\ df[1].impr = Num(1)
    /\ res.adj[1].land = 2
    /\ res.adj[1].impr = 1

\* C17: when neither exemption column is used (not named, or not in the
\* table), adjusted land and adjusted improvement are the coerced raw land
\* and improvement values, for every row.
C17_NoExemptionColumns ==
    (Adjusted /\ ~call.cfg.exempt /\ ~call.cfg.flag) =>
        \A i \in 1..Len(df) :
            /\ res.adj[i].land = ValueOrZero(df[i].land)
            /\ call.cfg.impr => res.adj[i].impr = ValueOrZero(df[i].impr)

\* a negative land value and a text improvement value come back as -1 and 0
C17_Witness ==
    /\ Adjusted
    /\ call.cfg = [impr |-> TRUE, exempt |-> FALSE, flag |-> FALSE]
    /\ df[1].land = Num(-1)
    /\ df[1].impr = StrCell
    /\ df[1].exempt = Num(2)
    /\ df[1].flag = Num(1)
    /\ res.adj[1].land = -1
    /\ res.adj[1].impr = 0

\* C18: when no improvement value is tracked and the exemption amount is
\* used, adjusted land = max(land - exemption, 0) for every row that is not
\* fully exempt, and no adjusted improvement series is returned.
C18_ExemptionFromLand ==
    (Adjusted /\ ~call.cfg.impr /\ call.cfg.exempt) =>
        \A i \in 1..Len(df) :
            /\ ~res.adj[i].tracked
            /\ ~ExemptRow(df[i], call.cfg) =>
                   res.adj[i].land =
                       Max(ValueOrZero(df[i].land) - ValueOrZero(df[i].exempt), 0)

\* the exemption is larger than the land value: adjusted land is 0
C18_Witness ==
    /\ Adjusted
    /\ ~call.cfg.impr
    /\ call.cfg.exempt
    /\ ~ExemptRow(df[1], call.cfg)
    /\ df[1].land = Num(1)
    /\ df[1].exempt = Num(2)
    /\ df[1].impr = Num(2)
    /\ res.adj[1].land = 0
    /\ ~res.adj[1].tracked

(***************************************************************************)
(* Properties of the table analyses (checked under SpecTable).             *)
(***************************************************************************)
ByCategory == res.fn = "by_category"

VacantLand == res.fn = "vacant_land" /\ ~res.error

ParkingLots == res.fn = "parking_lots" /\ ~res.error /\ ~res.raised

\* a reported ratio of denominator d: finite, and 0 when d is 0
RatioOk(r, d) == IsFinite(r) /\ (d = 0 => IsZeroF(r))

\* C5: every ratio and percentage that analyze_parking_lots,
\* analyze_property_values_by_category and analyze_vacant_land report is
\* finite, and is 0 when its denominator is 0.
C5_RatiosNormalized ==
    /\ ParkingLots =>
        /\ \A i \in 1..res.total_parking_lots :
               RatioOk(res.improvement_to_land_ratio[i], res.park_adj_land[i])
        /\ res.has_development_potential =>
               RatioOk(res.development_potential.citywide_avg_improvement_ratio,
                       res.total_city_adj_land)
    /\ ByCategory =>
        \A j \in 1..Len(res.rows) :
            /\ RatioOk(res.rows[j].improvement_land_ratio,
                       res.rows[j].total_land_value)
            /\ "non_exempt_improvement_land_ratio" \in res.columns =>
                   RatioOk(res.rows[j].non_exempt_improvement_land_ratio,
                           res.rows[j].non_exempt_land_value)
    /\ VacantLand =>
        /\ RatioOk(res.vacant_land_pct_of_total, res.total_city_land_value)
        /\ "concentration_metrics" \in res.keys =>
            /\ RatioOk(res.concentration_metrics.top_5_percent_share,
                       res.total_vacant_land_value)
            /\ RatioOk(res.concentration_metrics.top_10_percent_share,
                       res.total_vacant_land_value)

\* a category whose land total is 0 and whose improvement total is not, and
\* a second one whose totals are both 0: x/0 and 0/0 are both reported as 0
C5_Witness ==
    /\ ByCategory
    /\ Len(res.rows) = 2
    /\ res.rows[1].total_land_value = 0
    /\ res.rows[1].total_improvement_value > 0
    /\ IsZeroF(res.rows[1].improvement_land_ratio)
    /\ res.rows[2].total_land_value = 0
    /\ res.rows[2].total_improvement_value = 0
    /\ IsZeroF(res.rows[2].improvement_land_ratio)

\* rows is ordered by the column by descending
SortedDesc(rows, by) ==
    \A j, k \in 1..Len(rows) : j < k => rows[j][by] >= rows[k][by]

\* rows of equal by are in ascending order of category key
TiesAscending(rows, by) ==
    \A j, k \in 1..Len(rows) :
        (j < k /\ rows[j][by] = rows[k][by]) => rows[j].category < rows[k].category

\* C8 as stated: every category breakdown is ordered by its sum column
\* descending, and categories of equal sums are in ascending order of key.
C8_SortedTiesByKey ==
    /\ ByCategory =>
        /\ SortedDesc(res.rows, "total_land_value")
        /\ TiesAscending(res.rows, "total_land_value")
    /\ VacantLand =>
        /\ SortedDesc(res.by_neighborhood, "total_value")
        /\ TiesAscending(res.by_neighborhood, "total_value")
        /\ SortedDesc(res.by_zoning, "total_value")
        /\ TiesAscending(res.by_zoning, "total_value")
        /\ SortedDesc(res.owner_analysis, "total_value")
        /\ TiesAscending(res.owner_analysis, "total_value")

\* C8 amended: every category breakdown is ordered by its sum column
\* descending; the order of categories of equal sums is not fixed.
C8_SortedDescending ==
    /\ ByCategory => SortedDesc(res.rows, "total_land_value")
    /\ VacantLand =>
        /\ SortedDesc(res.by_neighborhood, "total_value")
        /\ SortedDesc(res.by_zoning, "total_value")
        /\ SortedDesc(res.owner_analysis, "total_value")

\* the category of the larger key has the larger sum and comes first
C8_Witness ==
    /\ ByCategory
    /\ Len(res.rows) = 2
    /\ res.rows[1].category = 2
    /\ res.rows[2].category = 1
    /\ res.rows[1].total_land_value > res.rows[2].total_land_value

\* C12: when no row of the table has the requested property type,
\* analyze_vacant_land and analyze_parking_lots return a result that holds
\* the error marker and nothing else (no total, no ratio, no breakdown), and
\* raise nothing.
C12_EmptyFilterErrorOnly ==
    /\ ( /\ call.fn = "vacant_land"
         /\ \A i \in 1..Len(df) : df[i].ptype /= "V" )
       => /\ res.error
          /\ DOMAIN res = {"fn", "error"}
    /\ ( /\ call.fn = "parking_lots"
         /\ \A i \in 1..Len(df) : df[i].ptype /= "P" )
       => /\ res.error
          /\ ~res.raised
          /\ DOMAIN res = {"fn", "error", "raised"}

\* a table of vacant parcels only, asked for its parking lots with every
\* exemption column named
C12_Witness ==
    /\ call.fn = "parking_lots"
    /\ call.cfg = [exempt |-> TRUE, flag |-> TRUE]
    /\ Len(df) = MaxRows
    /\ \A i \in 1..Len(df) : df[i].ptype = "V"
    /\ res.error
    /\ ~res.raised

\* the parking parcels that meet both bounds, by their adjusted land value
\* and their adjusted improvement-to-land ratio
MeetsBounds ==
    {i \in 1..res.total_parking_lots :
        /\ res.park_adj_land[i] >= call.min_land_value_threshold
        /\ res.improvement_to_land_ratio[i].n * call.max_improvement_ratio.d
               <= call.max_improvement_ratio.n * res.improvement_to_land_ratio[i].d}

\* C19: the underutilized parking parcels are exactly those of adjusted land
\* value >= min_land_value_threshold and adjusted ratio <=
\* max_improvement_ratio; the reported count and total_land_value are their
\* number and the sum of their adjusted land values.
C19_UnderutilizedExact ==
    ParkingLots =>
        /\ res.underutilized_parking_lots.count = Cardinality(MeetsBounds)
        /\ res.underutilized_parking_lots.total_land_value =
               SumSet(MeetsBounds, res.park_adj_land)
        /\ res.has_development_potential = (MeetsBounds /= {})

\* two parking parcels, max_improvement_ratio = 1: the one whose land value
\* is the threshold and whose ratio is exactly 1 is counted, the one of land
\* value 0 is not
C19_Witness ==
    /\ ParkingLots
    /\ call.max_improvement_ratio = Fin(1, 1)
    /\ res.total_parking_lots = 2
    /\ res.park_adj_land[1] = 1
    /\ res.improvement_to_land_ratio[1] = Fin(1, 1)
    /\ res.park_adj_land[2] = 0
    /\ res.underutilized_parking_lots.count = 1
    /\ res.underutilized_parking_lots.total_land_value = 1

\* C27: the counts of the five tiers of by_land_value_tier sum to
\* total_parking_lots and their land sums add up to
\* total_parking_land_value.
C27_TiersPartition ==
    ParkingLots =>
        /\ SumSet(1..5, [t \in 1..5 |-> res.by_land_value_tier[t].count])
               = res.total_parking_lots
        /\ SumSet(1..5, [t \in 1..5 |-> res.by_land_value_tier[t].total_land_value])
               = res.total_parking_land_value

\* C9: with a flag column supplied, every category row has a numeric
\* fully_exempt_count, which is 0 for a category without fully exempt row.
C9_FullyExemptCountFilled ==
    (ByCategory /\ call.cfg.flag) =>
        \A j \in 1..Len(res.rows) :
            /\ IsFinite(res.rows[j].fully_exempt_count)
            /\ (\A i \in group_rows(df, "cat", res.rows[j].category) :
                    Coerce(df[i].flag) = 0)
               => IsZeroF(res.rows[j].fully_exempt_count)

\* the count a fully_exempt_count cell stands for (a missing cell: no row)
CountOf(c) == IF c.k = "nan" THEN 0 ELSE c.n

\* C10: for every category, fully_exempt_count is the number of the
\* category's rows that _compute_adjusted_values treats as fully exempt
\* (flag nonzero).
C10_CountMatchesAllocator ==
    (ByCategory /\ call.cfg.flag) =>
        \A j \in 1..Len(res.rows) :
            CountOf(res.rows[j].fully_exempt_count) =
                Cardinality({i \in group_rows(df, "cat", res.rows[j].category) :
                                fully_exempt_mask(Coerce(df[i].flag))})

(***************************************************************************)
(* Properties of the development tax penalty (checked under SpecPenalty).  *)
(***************************************************************************)
\* C6: on a table whose total improvement value is 0 and that has no parcel
\* of positive improvement value, npv_as_pct_of_construction_cost and
\* units_lost_percentage are 0.
C6_ZeroTotalNormalized ==
    ( /\ res.fn = "tax_penalty"
      /\ res.total_improvement_value = 0
      /\ \A i \in 1..Len(df) : Coerce(df[i].impr) <= 0 )
    => /\ IsZeroF(res.npv_as_pct_of_construction_cost)
       /\ IsZeroF(res.units_lost_percentage)

\* C11: estimated_current_units is 1.5 x the number of rows whose value in
\* the column named by improvement_value_col is > 0, for every column the
\* caller names.
C11_StockCountsNamedColumn ==
    res.fn = "tax_penalty" =>
        res.estimated_current_units =
            Frac(3 * Cardinality({i \in 1..Len(df) :
                     Coerce(df[i][call.improvement_value_col]) > 0}), 2)

(***************************************************************************)
(* Properties of the owner concentration (checked under SpecOwners).       *)
(***************************************************************************)
WithOwners == VacantLand /\ "concentration_metrics" \in res.keys

\* the number of owners of the vacant parcels
OwnerCount ==
    Cardinality({df[i].cat : i \in {j \in 1..Len(df) : df[j].ptype = "V"}} \ {NaNKey})

\* x * pct / 100 rounded to the nearest integer, halves to even
RoundPct(x, pct) ==
    LET q == (x * pct) \div 100
        r == (x * pct) % 100
    IN  IF r > 50 \/ (r = 50 /\ q % 2 = 1) THEN q + 1 ELSE q

\* the sum of the first k total values of rows
FirstSum(rows, k) ==
    SumSet({j \in 1..Len(rows) : j <= k}, [j \in 1..Len(rows) |-> rows[j].total_value])

\* the tiers are the first k5 and the first k10 owners in descending order
\* of total value
TiersAre(k5, k10) ==
    /\ SortedDesc(res.owner_analysis, "total_value")
    /\ Len(res.owner_analysis) = OwnerCount
    /\ res.concentration_metrics.top_5_count = k5
    /\ res.concentration_metrics.top_10_count = k10
    /\ res.concentration_metrics.top_5_value = FirstSum(res.owner_analysis, k5)
    /\ res.concentration_metrics.top_10_value = FirstSum(res.owner_analysis, k10)

\* C7 as stated: the tiers are the first k owners in descending order of
\* total value, k = max(round(0.05 n), 1) and k = max(round(0.10 n), 1).
C7_TopCountRounded ==
    WithOwners =>
        TiersAre(Max(RoundPct(OwnerCount, 5), 1), Max(RoundPct(OwnerCount, 10), 1))

\* C7 amended: the tiers are the first k owners in descending order of
\* total value, k = max(floor(0.05 n), 1) and k = max(floor(0.10 n), 1).
C7_TopCountTruncated ==
    WithOwners =>
        TiersAre(Max((OwnerCount * 5) \div 100, 1), Max((OwnerCount * 10) \div 100, 1))

\* 19 owners: 1.9 truncates to one owner in the top-10% tier
C7_Witness ==
    /\ WithOwners
    /\ OwnerCount = 19
    /\ res.concentration_metrics.top_5_count = 1
    /\ res.concentration_metrics.top_10_count = 1
    /\ res.concentration_metrics.top_10_value = res.owner_analysis[1].total_value
    /\ res.owner_analysis[1].total_value > res.owner_analysis[2].total_value

\* the number of owners head(k) selects from the owner table
Selected(k) == Len(head(res.owner_analysis, k))

\* each tier selects at least 1 owner and no more owners than there are
TiersSelectOne ==
    /\ Selected(res.concentration_metrics.top_5_count) >= 1
    /\ Selected(res.concentration_metrics.top_10_count) >= 1
    /\ Selected(res.concentration_metrics.top_5_count) <= OwnerCount
    /\ Selected(res.concentration_metrics.top_10_count) <= OwnerCount

AccountsForAll(rows) ==
    /\ SumSet(1..Len(rows), [j \in 1..Len(rows) |-> rows[j].count])
           = res.total_vacant_parcels
    /\ SumSet(1..Len(rows), [j \in 1..Len(rows) |-> rows[j].total_value])
           = res.total_vacant_land_value

\* C29: every breakdown that analyze_vacant_land returns (by_neighborhood,
\* by_zoning, the owner table) accounts for every vacant parcel and for the
\* whole vacant land value.
C29_BreakdownsAccountForAll ==
    VacantLand =>
        /\ "by_neighborhood" \in res.keys => AccountsForAll(res.by_neighborhood)
        /\ "by_zoning" \in res.keys => AccountsForAll(res.by_zoning)
        /\ "concentration_metrics" \in res.keys => AccountsForAll(res.owner_analysis)

(***************************************************************************)
(* Properties of a session on one table (checked under SpecSession).       *)
(***************************************************************************)
\* C13: no call of an analysis function changes the caller's table: its
\* rows, cells and columns after the call are those before the call.
C13_InputUnchanged == [][df' = df /\ columns' = columns]_vars

\* a call on a table that holds a text cell and a missing cell, which the
\* function coerces in its own copy
C13_Witness ==
    /\ call.fn \in {"by_category", "improvement_share"}
    /\ df[1].land = StrCell
    /\ df[1].impr = NaNCell
    /\ res.fn = call.fn

FracLess(m, t, p, q) == IF t > 0 THEN m * q < p * t ELSE m * q > p * t

\* the bucket of a parcel of raw land value l and raw improvement value m:
\* 1 for 0% (m = 0, total > 0), 2 for (0, 10%), 3 for [10%, 25%), 4 for
\* [25%, 50%), 0 for no bucket
RawBucket(l, m) ==
    LET t == l + m
    IN  IF t = 0 THEN 0
        ELSE IF m = 0 THEN (IF t > 0 THEN 1 ELSE 0)
        ELSE IF m * t < 0 THEN 0
        ELSE IF FracLess(m, t, 1, 10) THEN 2
        ELSE IF FracLess(m, t, 1, 4) THEN 3
        ELSE IF FracLess(m, t, 1, 2) THEN 4
        ELSE 0

\* the parcels of bucket j that are not fully exempt
BucketParcels(j) ==
    {i \in 1..Len(df) :
        /\ ~ExemptRow(df[i], Effective(call.cfg))
        /\ RawBucket(ValueOrZero(df[i].land), ValueOrZero(df[i].impr)) = j}

\* the exemption-adjusted land value of each parcel
AdjustedLand ==
    [i \in 1..Len(df) |->
        ExpectedLand(ValueOrZero(df[i].land), ValueOrZero(df[i].impr),
                     ValueOrZero(df[i].exempt), ValueOrZero(df[i].flag),
                     [impr |-> TRUE, exempt |-> Effective(call.cfg).exempt,
                      flag |-> Effective(call.cfg).flag])]

\* C20: each parcel is in at most one bucket, the one its raw land and
\* improvement values decide, and each bucket's parcel_count and
\* adjusted_land_value are the number and the adjusted land sum of the
\* parcels of the bucket that are not fully exempt.
C20_BucketsByRawValues ==
    res.fn = "improvement_share" =>
        \A j \in 1..4 :
            /\ res.categories[j].parcel_count = Cardinality(BucketParcels(j))
            /\ res.categories[j].adjusted_land_value =
                   SumSet(BucketParcels(j), AdjustedLand)

\* a parcel of share 1/11 whose exemption takes 1 off its land value, and a
\* fully exempt parcel of the 0% bucket
C20_Witness ==
    /\ res.fn = "improvement_share"
    /\ call.cfg = [exempt |-> TRUE, flag |-> TRUE]
    /\ Len(df) = 2
    /\ df[1].land = Num(10) /\ df[1].impr = Num(1)
    /\ df[1].exempt = Num(2) /\ df[1].flag = Num(0)
    /\ df[2].land = Num(2) /\ df[2].impr = Num(0) /\ df[2].flag = Num(2)
    /\ res.categories[1].parcel_count = 0
    /\ res.categories[2].parcel_count = 1
    /\ res.categories[2].adjusted_land_value = 9

\* C21: when every parcel is fully exempt, total_adjusted_land_value is 0
\* (not the floor of 1) and every bucket's share_of_total_land_value_pct is
\* the number 0.
C21_AllExemptZeroShares ==
    ( /\ res.fn = "improvement_share"
      /\ \A i \in 1..Len(df) : ExemptRow(df[i], Effective(call.cfg)) )
    => /\ res.total_adjusted_land_value = 0
       /\ \A j \in 1..4 :
              /\ IsZeroF(res.categories[j].share_of_total_land_value_pct)
              /\ res.categories[j].adjusted_land_value = 0
              /\ res.categories[j].parcel_count = 0

\* two fully exempt parcels of land value 10 and 2
C21_Witness ==
    /\ res.fn = "improvement_share"
    /\ call.cfg.flag
    /\ Len(df) = 2
    /\ df[1].land = Num(10) /\ df[1].flag = Num(2)
    /\ df[2].land = Num(2) /\ df[2].flag = Num(2)
    /\ res.total_adjusted_land_value = 0
    /\ IsZeroF(res.categories[1].share_of_total_land_value_pct)

(***************************************************************************)
(* Properties of the analyses of a table without improvement column        *)
(* (checked under SpecLandOnly).                                           *)
(***************************************************************************)
\* C28: on a table without improvement column that has a parking parcel,
\* analyze_parking_lots returns a result and raises nothing; the improvement
\* totals are 0 and the ratio of every parcel is 0.
C28_NoImprovementColumn ==
    ( /\ call.fn = "parking_lots"
      /\ "impr" \notin columns
      /\ \E i \in 1..Len(df) : df[i].ptype = "P" )
    => /\ ~res.raised
       /\ ~res.error
       /\ res.total_parking_improvement_value = 0
       /\ res.underutilized_parking_lots.total_improvement_value = 0
       /\ \A i \in 1..res.total_parking_lots :
              IsZeroF(res.improvement_to_land_ratio[i])

(***************************************************************************)
(* Properties of get_mapserver_data_with_resume (SpecResume).              *)
(***************************************************************************)

\* C22: when max_records is given, the function never returns more records
\* than max_records, whatever the server's record count, the start_offset
\* and the number of records the server returns per request.
C22_AtMostMaxRecords ==
    ( /\ pc = "done"
      /\ args.fn = "resume"
      /\ args.max_records > 0 )
    => Len(loc.all_features) <= args.max_records

\* C24: when a first run gave up at offset k and a second run with
\* start_offset = k on the unchanged server has returned, the records of
\* the two runs together are the records from the first run's start offset
\* to the total, each exactly once.
C24_ResumeCompletes ==
    ( /\ pc = "done"
      /\ args.fn = "resume"
      /\ trace.run = 2
      /\ ~trace.gave_up
      /\ trace.start < loc.total_records )
    => trace.first \o loc.all_features
           = Records(trace.start + 1, loc.total_records)

\* a pass of the download loop that fetched a chunk and goes on
ChunkFetched ==
    /\ pc = "loop"
    /\ pc' = "loop"
    /\ loc'.all_features /= loc.all_features

LoopStepOrdered ==
    /\ pc = "loop" => loc'.offset >= loc.offset
    /\ ChunkFetched => /\ loc'.offset = loc.offset + chunk_size
                       /\ loc'.failed_attempts = 0

C23_AllFeaturesReturned ==
    ( /\ pc = "done"
      /\ args.fn = "feature_data"
      /\ ~trace.failed )
    => /\ loc.result = "frame"
       /\ loc.all_features = Records(1, loc.total_records)

(***************************************************************************)
(* Properties of the census block group fetchers (SpecCensus).             *)
(***************************************************************************)

\* the tracts that the for loop of the chunked fetch has left behind
PassedTracts == 1..(IF loc.tract - 1 <= loc.tract_numbers
                    THEN loc.tract - 1 ELSE loc.tract_numbers)

\* the for loop of the chunked fetch is running or over
InTractLoop == loc.fn = "census" /\ loc.tract >= 1

\* C26: the chunked fetch issues at most max_retries requests for each
\* tract; a tract whose requests all fail is skipped and the tracts after it
\* are still requested; the block groups of the tracts that answered with
\* some are kept, in order; and ValueError is raised at the end exactly
\* when no tract yielded a block group.
C26_TractRetries ==
    /\ \A t \in 1..MaxTracts :
           trace.requests[t] <= IF pc = "idle" THEN 0 ELSE args.max_retries
    /\ InTractLoop =>
           /\ \A t \in PassedTracts :
                  /\ args.max_retries >= 1 => trace.requests[t] >= 1
                  /\ t \in trace.skipped =>
                         /\ trace.requests[t] = args.max_retries
                         /\ t \notin trace.yielded
           /\ loc.all_block_groups = SortedSeq(trace.yielded)
    /\ (pc = "done" /\ loc.line = 175) =>
           /\ loc.result = "ValueError"
           /\ trace.yielded = {}
    /\ (pc = "done" /\ InTractLoop /\ trace.yielded = {}) =>
           /\ loc.result = "ValueError"
           /\ loc.line = 175

\* a tract was given up after max_retries failing requests, a later tract
\* yielded block groups, and the frame is returned
C26_Witness ==
    /\ pc = "done"
    /\ loc.result = "frame"
    /\ loc.line = 192
    /\ \E t \in trace.skipped, u \in trace.yielded : t < u

\* C30: get_census_blockgroups_shapefile takes its fetch path in a fixed
\* order: a fips_code that fails the argument checks raises before any
\* request; a code of the large-county list makes no direct request; any
\* other code makes the direct request first, and the chunked fetch is
\* invoked only after it; the chunked fetch is invoked at most once per
\* call.
C30_FetchPathOrder ==
    ( pc /= "idle" /\ args.fn = "shapefile" ) =>
        /\ fips_error(args.fips_code) /= "" => trace.total = 0
        /\ in_large_counties(args.fips_code) => trace.direct = 0
        /\ ( /\ fips_error(args.fips_code) = ""
             /\ ~in_large_counties(args.fips_code)
             /\ trace.chunked >= 1 ) => trace.direct = 1
        /\ trace.chunked <= 1

====
